---- MODULE Spec2Model ----
(***************************************************************************)
(* Model of the litematic skin extractor: the NBT tag-tree decoder         *)
(* (class NBTReader) and the record extractor (extractSkinsFromNBT,        *)
(* extractSkinFromEntity, parseProfile, intArrayToUUID) of nbt-reader.js.  *)
(*                                                                         *)
(* Conventions.                                                            *)
(*  - A byte buffer is a sequence of 0..255; a cursor `off` counts the     *)
(*    bytes already consumed (the JavaScript offset).                      *)
(*  - A JavaScript value is a record [k, v]: k is its kind ("undefined",   *)
(*    "null", "number", "float", "bigint", "string", "array", "int8array", *)
(*    "int32array", "object") and v its content.  A string is the sequence *)
(*    of its UTF-16 code units.  A BigInt is its 8 two's-complement bytes, *)
(*    most significant first, and an unsigned 32-bit value is handled as   *)
(*    two 16-bit halves: the checker's integers are 32-bit signed.         *)
(*  - "number" is a Number that is an integer below 2^31 in magnitude;     *)
(*    "float" is any other Number read by getFloat32/getFloat64, kept as   *)
(*    its IEEE bytes with every NaN collapsed to one.                      *)
(*  - An operation that can throw yields [ok, v, off]; ok = FALSE is the   *)
(*    thrown exception and off the cursor when it was thrown.              *)
(***************************************************************************)
EXTENDS Integers, Sequences, FiniteSets, TLC

VARIABLES doc, buffer, mode, pc, parsed, skins, skin

vars == <<doc, buffer, mode, pc, parsed, skins, skin>>

(***************************************************************************)
(* Tag types (nbt-reader.js)                                               *)
(***************************************************************************)
TAG_END == 0
TAG_BYTE == 1
TAG_SHORT == 2
TAG_INT == 3
TAG_LONG == 4
TAG_FLOAT == 5
TAG_DOUBLE == 6
TAG_BYTE_ARRAY == 7
TAG_STRING == 8
TAG_LIST == 9
TAG_COMPOUND == 10
TAG_INT_ARRAY == 11
TAG_LONG_ARRAY == 12

(***************************************************************************)
(* JavaScript values                                                       *)
(***************************************************************************)
Undefined == [k |-> "undefined", v |-> 0]
Null == [k |-> "null", v |-> 0]
BaseProto == [k |-> "base", v |-> 0]

Num(n) == [k |-> "number", v |-> n]
Float(bytes) == [k |-> "float", v |-> bytes]
BigInt(bytes) == [k |-> "bigint", v |-> bytes]
Str(s) == [k |-> "string", v |-> s]
Arr(s) == [k |-> "array", v |-> s]
I8Arr(s) == [k |-> "int8array", v |-> s]
I32Arr(s) == [k |-> "int32array", v |-> s]
Obj(own, proto) == [k |-> "object", v |-> [own |-> own, proto |-> proto]]
Prop(key, val) == [key |-> key, val |-> val]

\* The result of an operation that may throw.
Ret(v, off) == [ok |-> TRUE, v |-> v, off |-> off]
Throw(off) == [ok |-> FALSE, v |-> Undefined, off |-> off]

IsObjectKind(x) == x.k \in {"array", "int8array", "int32array", "object"}

(***************************************************************************)
(* DataView reads: getInt8 .. getFloat64 throw a RangeError when the read  *)
(* would pass the end of the buffer.                                       *)
(***************************************************************************)
S8(b) == IF b >= 128 THEN b - 256 ELSE b

readByte(buf, off) ==
    IF off + 1 > Len(buf) THEN Throw(off)
    ELSE Ret(Num(S8(buf[off + 1])), off + 1)

readUByte(buf, off) ==
    IF off + 1 > Len(buf) THEN Throw(off)
    ELSE Ret(Num(buf[off + 1]), off + 1)

readShort(buf, off) ==
    IF off + 2 > Len(buf) THEN Throw(off)
    ELSE Ret(Num(S8(buf[off + 1]) * 256 + buf[off + 2]), off + 2)

readInt(buf, off) ==
    IF off + 4 > Len(buf) THEN Throw(off)
    ELSE Ret(Num(S8(buf[off + 1]) * 16777216 + buf[off + 2] * 65536
                 + buf[off + 3] * 256 + buf[off + 4]), off + 4)

\* (BigInt(high) << 32n) | BigInt(low): the eight bytes as they stand.
readLong(buf, off) ==
    IF off + 8 > Len(buf) THEN Throw(off)
    ELSE Ret(BigInt(SubSeq(buf, off + 1, off + 8)), off + 8)

RECURSIVE Pow2(_)
Pow2(n) == IF n = 0 THEN 1 ELSE 2 * Pow2(n - 1)

\* An IEEE value with an all-ones exponent and a non-zero fraction is NaN.
IsNaN32(b) ==
    /\ b[1] % 128 = 127 /\ b[2] >= 128
    /\ (b[2] % 128 # 0 \/ b[3] # 0 \/ b[4] # 0)

IsNaN64(b) ==
    /\ b[1] % 128 = 127 /\ b[2] >= 240
    /\ (b[2] % 16 # 0 \/ \E i \in 3..8 : b[i] # 0)

CanonNaN == <<127, 248, 0, 0, 0, 0, 0, 0>>

\* The Number a float32 bit pattern denotes.  JavaScript has one Number type:
\* a pattern that denotes an integer below 2^31 in magnitude (+0 included) is
\* that integer; any other pattern stays a "float".
F32Value(b) ==
    LET e == (b[1] % 128) * 2 + (b[2] \div 128)
        m == 8388608 + (b[2] % 128) * 65536 + b[3] * 256 + b[4]
        neg == b[1] >= 128
        mag == IF e >= 150 THEN m * Pow2(e - 150) ELSE m \div Pow2(150 - e)
    IN  IF IsNaN32(b) THEN Float(CanonNaN)
        ELSE IF b = <<0, 0, 0, 0>> THEN Num(0)
        ELSE IF e >= 127 /\ e <= 157 /\ (e < 150 => m % Pow2(150 - e) = 0)
        THEN Num(IF neg THEN 0 - mag ELSE mag)
        ELSE Float(b)

\* The same for a float64 bit pattern: exponent e - 1023 in 0..30, and no
\* fraction bit set below the units.
F64Value(b) ==
    LET e == (b[1] % 128) * 16 + (b[2] \div 16) - 1023
        mt == 1048576 + (b[2] % 16) * 65536 + b[3] * 256 + b[4]
        h == b[5] * 256 + b[6]
        neg == b[1] >= 128
        integral ==
            /\ e >= 0 /\ e <= 30 /\ b[7] = 0 /\ b[8] = 0
            /\ IF e <= 20 THEN h = 0 /\ mt % Pow2(20 - e) = 0
               ELSE h % Pow2(36 - e) = 0
        mag == IF e <= 20 THEN mt \div Pow2(20 - e)
               ELSE mt * Pow2(e - 20) + (h \div Pow2(36 - e))
    IN  IF IsNaN64(b) THEN Float(CanonNaN)
        ELSE IF b = <<0, 0, 0, 0, 0, 0, 0, 0>> THEN Num(0)
        ELSE IF integral THEN Num(IF neg THEN 0 - mag ELSE mag)
        ELSE Float(b)

readFloat(buf, off) ==
    IF off + 4 > Len(buf) THEN Throw(off)
    ELSE Ret(F32Value(SubSeq(buf, off + 1, off + 4)), off + 4)

readDouble(buf, off) ==
    IF off + 8 > Len(buf) THEN Throw(off)
    ELSE Ret(F64Value(SubSeq(buf, off + 1, off + 8)), off + 8)

(***************************************************************************)
(* TextDecoder('utf-8').decode: the WHATWG UTF-8 decoder.  An ill-formed   *)
(* sequence becomes U+FFFD and the byte that broke it is read again; a     *)
(* leading byte order mark is dropped.                                     *)
(***************************************************************************)
IsCont(bytes, i, lo, hi) == i <= Len(bytes) /\ bytes[i] >= lo /\ bytes[i] <= hi

RECURSIVE Utf8Units(_, _)
Utf8Units(bytes, i) ==
    IF i > Len(bytes) THEN <<>>
    ELSE LET b == bytes[i] IN
      IF b <= 127 THEN <<b>> \o Utf8Units(bytes, i + 1)
      ELSE IF b >= 194 /\ b <= 223 THEN
        IF IsCont(bytes, i + 1, 128, 191)
        THEN <<(b - 192) * 64 + (bytes[i + 1] - 128)>> \o Utf8Units(bytes, i + 2)
        ELSE <<65533>> \o Utf8Units(bytes, i + 1)
      ELSE IF b >= 224 /\ b <= 239 THEN
        LET lo == IF b = 224 THEN 160 ELSE 128
            hi == IF b = 237 THEN 159 ELSE 191
        IN  IF ~IsCont(bytes, i + 1, lo, hi)
            THEN <<65533>> \o Utf8Units(bytes, i + 1)
            ELSE IF ~IsCont(bytes, i + 2, 128, 191)
            THEN <<65533>> \o Utf8Units(bytes, i + 2)
            ELSE <<(b - 224) * 4096 + (bytes[i + 1] - 128) * 64
                   + (bytes[i + 2] - 128)>> \o Utf8Units(bytes, i + 3)
      ELSE IF b >= 240 /\ b <= 244 THEN
        LET lo == IF b = 240 THEN 144 ELSE 128
            hi == IF b = 244 THEN 143 ELSE 191
        IN  IF ~IsCont(bytes, i + 1, lo, hi)
            THEN <<65533>> \o Utf8Units(bytes, i + 1)
            ELSE IF ~IsCont(bytes, i + 2, 128, 191)
            THEN <<65533>> \o Utf8Units(bytes, i + 2)
            ELSE IF ~IsCont(bytes, i + 3, 128, 191)
            THEN <<65533>> \o Utf8Units(bytes, i + 3)
            ELSE LET cp == (b - 240) * 262144 + (bytes[i + 1] - 128) * 4096
                           + (bytes[i + 2] - 128) * 64 + (bytes[i + 3] - 128)
                           - 65536
                 IN  <<55296 + (cp \div 1024), 56320 + (cp % 1024)>>
                     \o Utf8Units(bytes, i + 4)
      ELSE <<65533>> \o Utf8Units(bytes, i + 1)

Utf8Decode(bytes) ==
    LET u == IF \A i \in 1..Len(bytes) : bytes[i] <= 127
             THEN bytes ELSE Utf8Units(bytes, 1)
    IN  IF Len(u) > 0 /\ u[1] = 65279 THEN Tail(u) ELSE u

\* length <= 0 returns '' and consumes nothing more; new Uint8Array(buffer,
\* offset, length) throws a RangeError when offset + length passes the end.
readString(buf, off) ==
    LET l == readShort(buf, off) IN
    IF ~l.ok THEN l
    ELSE IF l.v.v <= 0 THEN Ret(Str(<<>>), l.off)
    ELSE IF l.off + l.v.v > Len(buf) THEN Throw(l.off)
    ELSE Ret(Str(Utf8Decode(SubSeq(buf, l.off + 1, l.off + l.v.v))),
             l.off + l.v.v)

\* new Int8Array(length) throws a RangeError for a negative length; the loop
\* throws at the first element past the end of the buffer.
readByteArray(buf, off) ==
    LET l == readInt(buf, off) IN
    IF ~l.ok THEN l
    ELSE IF l.v.v < 0 THEN Throw(l.off)
    ELSE IF l.v.v > Len(buf) - l.off THEN Throw(Len(buf))
    ELSE Ret(I8Arr([i \in 1..l.v.v |-> S8(buf[l.off + i])]), l.off + l.v.v)

readIntArray(buf, off) ==
    LET l == readInt(buf, off) IN
    IF ~l.ok THEN l
    ELSE IF l.v.v < 0 THEN Throw(l.off)
    ELSE IF l.v.v > (Len(buf) - l.off) \div 4
    THEN Throw(l.off + 4 * ((Len(buf) - l.off) \div 4))
    ELSE Ret(I32Arr([i \in 1..l.v.v |->
                        readInt(buf, l.off + 4 * (i - 1)).v.v]),
             l.off + 4 * l.v.v)

\* A plain array filled by push: a negative length leaves it empty.
readLongArray(buf, off) ==
    LET l == readInt(buf, off) IN
    IF ~l.ok THEN l
    ELSE IF l.v.v <= 0 THEN Ret(Arr(<<>>), l.off)
    ELSE IF l.v.v > (Len(buf) - l.off) \div 8
    THEN Throw(l.off + 8 * ((Len(buf) - l.off) \div 8))
    ELSE Ret(Arr([i \in 1..l.v.v |->
                     readLong(buf, l.off + 8 * (i - 1)).v]),
             l.off + 8 * l.v.v)

(***************************************************************************)
(* Property keys.  A JavaScript object lists its array-index keys          *)
(* ("0" .. "4294967294", no leading zero) first, in ascending numeric      *)
(* order, and then its other string keys in insertion order.               *)
(***************************************************************************)
MaxIndexDigits == <<52, 50, 57, 52, 57, 54, 55, 50, 57, 52>>

RECURSIVE LexLess(_, _, _)
LexLess(a, b, i) ==
    IF i > Len(a) THEN FALSE
    ELSE IF a[i] # b[i] THEN a[i] < b[i]
    ELSE LexLess(a, b, i + 1)

IndexLess(a, b) == Len(a) < Len(b) \/ (Len(a) = Len(b) /\ LexLess(a, b, 1))

IsIndex(s) ==
    /\ Len(s) >= 1 /\ Len(s) <= 10
    /\ \A i \in 1..Len(s) : s[i] >= 48 /\ s[i] <= 57
    /\ (Len(s) > 1 => s[1] # 48)
    /\ (Len(s) = 10 => ~LexLess(MaxIndexDigits, s, 1))

RECURSIVE DigitsValue(_, _)
DigitsValue(s, n) ==
    IF n = 0 THEN 0 ELSE DigitsValue(s, n - 1) * 10 + (s[n] - 48)

\* The element position an index key names in a sequence of `len` elements
\* (1-based), or 0 when it names none.
IndexIn(s, len) ==
    IF IsIndex(s) /\ Len(s) <= 9 /\ DigitsValue(s, Len(s)) < len
    THEN DigitsValue(s, Len(s)) + 1 ELSE 0

RECURSIVE NatDigits(_)
NatDigits(n) ==
    IF n < 10 THEN <<48 + n>> ELSE NatDigits(n \div 10) \o <<48 + (n % 10)>>

K__proto__ == <<95, 95, 112, 114, 111, 116, 111, 95, 95>>
K_length == <<108, 101, 110, 103, 116, 104>>

OwnIndex(own, key) ==
    IF \E i \in 1..Len(own) : own[i].key = key
    THEN CHOOSE i \in 1..Len(own) : own[i].key = key
    ELSE 0

\* Where a new key goes among the own keys.
InsertAt(own, key) ==
    IF IsIndex(key)
    THEN Cardinality({i \in 1..Len(own) :
                         IsIndex(own[i].key) /\ IndexLess(own[i].key, key)})
    ELSE Len(own)

\* An integer-indexed (typed array) prototype swallows a write to an index key
\* it has no element for; any other inherited data property is shadowed.
RECURSIVE ProtoSwallows(_, _)
ProtoSwallows(proto, key) ==
    IF proto.k \in {"int8array", "int32array"}
    THEN IsIndex(key) /\ IndexIn(key, Len(proto.v)) = 0
    ELSE IF proto.k = "object"
    THEN OwnIndex(proto.v.own, key) = 0 /\ ProtoSwallows(proto.v.proto, key)
    ELSE FALSE

\* compound[name] = value
CompoundSet(compound, name, value) ==
    LET own == compound.v.own
        at == OwnIndex(own, name)
    IN  IF name = K__proto__
        THEN IF IsObjectKind(value)
             THEN Obj(own, value)
             ELSE compound
        ELSE IF at # 0
        THEN Obj([own EXCEPT ![at] = Prop(name, value)], compound.v.proto)
        ELSE IF ProtoSwallows(compound.v.proto, name)
        THEN compound
        ELSE LET n == InsertAt(own, name)
             IN  Obj(SubSeq(own, 1, n) \o <<Prop(name, value)>>
                     \o SubSeq(own, n + 1, Len(own)), compound.v.proto)

(***************************************************************************)
(* readTag / readList / readCompound / parse                               *)
(***************************************************************************)
RECURSIVE readTag(_, _, _)
RECURSIVE readListItems(_, _, _, _, _)
RECURSIVE readCompoundEntries(_, _, _)

\* The loop of readList: `left` items still to read into `list`.
readListItems(buf, off, itemType, left, list) ==
    IF left <= 0 THEN Ret(Arr(list), off)
    ELSE LET item == readTag(buf, off, itemType) IN
         IF ~item.ok THEN item
         ELSE readListItems(buf, item.off, itemType, left - 1,
                            Append(list, item.v))

readList(buf, off) ==
    LET itemType == readUByte(buf, off) IN
    IF ~itemType.ok THEN itemType
    ELSE LET length == readInt(buf, itemType.off) IN
         IF ~length.ok THEN length
         ELSE readListItems(buf, length.off, itemType.v.v, length.v.v, <<>>)

\* The loop of readCompound.
readCompoundEntries(buf, off, compound) ==
    LET tagType == readUByte(buf, off) IN
    IF ~tagType.ok THEN tagType
    ELSE IF tagType.v.v = TAG_END THEN Ret(compound, tagType.off)
    ELSE LET name == readString(buf, tagType.off) IN
         IF ~name.ok THEN name
         ELSE LET value == readTag(buf, name.off, tagType.v.v) IN
              IF ~value.ok THEN value
              ELSE readCompoundEntries(buf, value.off,
                                       CompoundSet(compound, name.v.v, value.v))

readCompound(buf, off) == readCompoundEntries(buf, off, Obj(<<>>, BaseProto))

readTag(buf, off, tagType) ==
    CASE tagType = TAG_END -> Ret(Null, off)
      [] tagType = TAG_BYTE -> readByte(buf, off)
      [] tagType = TAG_SHORT -> readShort(buf, off)
      [] tagType = TAG_INT -> readInt(buf, off)
      [] tagType = TAG_LONG -> readLong(buf, off)
      [] tagType = TAG_FLOAT -> readFloat(buf, off)
      [] tagType = TAG_DOUBLE -> readDouble(buf, off)
      [] tagType = TAG_BYTE_ARRAY -> readByteArray(buf, off)
      [] tagType = TAG_STRING -> readString(buf, off)
      [] tagType = TAG_LIST -> readList(buf, off)
      [] tagType = TAG_COMPOUND -> readCompound(buf, off)
      [] tagType = TAG_INT_ARRAY -> readIntArray(buf, off)
      [] tagType = TAG_LONG_ARRAY -> readLongArray(buf, off)
      [] OTHER -> Throw(off)

\* parse without its root-type check.
parse_NoRootTypeCheck(buf) ==
    LET rootType == readUByte(buf, 0) IN
    IF ~rootType.ok
    THEN [ok |-> FALSE, name |-> <<>>, value |-> Undefined, off |-> rootType.off]
    ELSE LET rootName == readString(buf, rootType.off) IN
         IF ~rootName.ok
         THEN [ok |-> FALSE, name |-> <<>>, value |-> Undefined,
               off |-> rootName.off]
         ELSE LET root == readCompound(buf, rootName.off) IN
              IF ~root.ok
              THEN [ok |-> FALSE, name |-> rootName.v.v, value |-> Undefined,
                    off |-> root.off]
              ELSE [ok |-> TRUE, name |-> rootName.v.v, value |-> root.v,
                    off |-> root.off]

\* NBTReader.parse: [ok, name, value, off].
parse(buf) ==
    LET rootType == readUByte(buf, 0) IN
    IF ~rootType.ok
    THEN [ok |-> FALSE, name |-> <<>>, value |-> Undefined, off |-> rootType.off]
    ELSE IF rootType.v.v # TAG_COMPOUND
    THEN [ok |-> FALSE, name |-> <<>>, value |-> Undefined, off |-> rootType.off]
    ELSE LET rootName == readString(buf, rootType.off) IN
         IF ~rootName.ok
         THEN [ok |-> FALSE, name |-> <<>>, value |-> Undefined,
               off |-> rootName.off]
         ELSE LET root == readCompound(buf, rootName.off) IN
              IF ~root.ok
              THEN [ok |-> FALSE, name |-> rootName.v.v, value |-> Undefined,
                    off |-> root.off]
              ELSE [ok |-> TRUE, name |-> rootName.v.v, value |-> root.v,
                    off |-> root.off]

(***************************************************************************)
(* JavaScript semantics the extractor relies on.  The property names are   *)
(* the ones the extractor reads; none of them is a member of a built-in    *)
(* prototype except `length`.                                              *)
(***************************************************************************)
K_Regions == <<82, 101, 103, 105, 111, 110, 115>>
K_regions == <<114, 101, 103, 105, 111, 110, 115>>
K_BlockEntities == <<66, 108, 111, 99, 107, 69, 110, 116, 105, 116, 105, 101, 115>>
K_TileEntities == <<84, 105, 108, 101, 69, 110, 116, 105, 116, 105, 101, 115>>
K_id == <<105, 100>>
K_Id == <<73, 100>>
K_profile == <<112, 114, 111, 102, 105, 108, 101>>
K_SkullOwner == <<83, 107, 117, 108, 108, 79, 119, 110, 101, 114>>
K_Owner == <<79, 119, 110, 101, 114>>
K_custom_name == <<99, 117, 115, 116, 111, 109, 95, 110, 97, 109, 101>>
K_CustomName == <<67, 117, 115, 116, 111, 109, 78, 97, 109, 101>>
K_Name == <<78, 97, 109, 101>>
K_name == <<110, 97, 109, 101>>
K_UUID == <<85, 85, 73, 68>>
K_uuid == <<117, 117, 105, 100>>
K_Properties == <<80, 114, 111, 112, 101, 114, 116, 105, 101, 115>>
K_properties == <<112, 114, 111, 112, 101, 114, 116, 105, 101, 115>>
K_textures == <<116, 101, 120, 116, 117, 114, 101, 115>>
K_Textures == <<84, 101, 120, 116, 117, 114, 101, 115>>
K_Value == <<86, 97, 108, 117, 101>>
K_value == <<118, 97, 108, 117, 101>>
K_Signature == <<83, 105, 103, 110, 97, 116, 117, 114, 101>>
K_signature == <<115, 105, 103, 110, 97, 116, 117, 114, 101>>
K_0 == <<48>>
K_1 == <<49>>
K_2 == <<50>>
K_3 == <<51>>

\* ToBoolean
Truthy(x) ==
    CASE x.k \in {"undefined", "null"} -> FALSE
      [] x.k = "number" -> x.v # 0
      [] x.k = "float" ->
           /\ x.v # CanonNaN
           /\ ~(x.v[1] = 128 /\ \A i \in 2..Len(x.v) : x.v[i] = 0)
      [] x.k = "bigint" -> \E i \in 1..8 : x.v[i] # 0
      [] x.k = "string" -> Len(x.v) > 0
      [] OTHER -> TRUE

\* a || b
Or(a, b) == IF Truthy(a) THEN a ELSE b

\* x.key throws a TypeError on null and undefined.
CanRead(x) == x.k \notin {"undefined", "null"}

\* x[key] for a value that can be read.
RECURSIVE Get(_, _)
Get(x, key) ==
    CASE x.k = "string" ->
           IF key = K_length THEN Num(Len(x.v))
           ELSE IF IndexIn(key, Len(x.v)) # 0
           THEN Str(<<x.v[IndexIn(key, Len(x.v))]>>)
           ELSE Undefined
      [] x.k = "array" ->
           IF key = K_length THEN Num(Len(x.v))
           ELSE IF IndexIn(key, Len(x.v)) # 0 THEN x.v[IndexIn(key, Len(x.v))]
           ELSE Undefined
      [] x.k \in {"int8array", "int32array"} ->
           IF key = K_length THEN Num(Len(x.v))
           ELSE IF IndexIn(key, Len(x.v)) # 0
           THEN Num(x.v[IndexIn(key, Len(x.v))])
           ELSE Undefined
      [] x.k = "object" ->
           IF OwnIndex(x.v.own, key) # 0
           THEN x.v.own[OwnIndex(x.v.own, key)].val
           ELSE Get(x.v.proto, key)
      [] OTHER -> Undefined

IndexKeys(len) == [i \in 1..len |-> NatDigits(i - 1)]

\* Remove from `keys` the ones already in `seen`.
RECURSIVE Unseen(_, _)
Unseen(keys, seen) ==
    IF Len(keys) = 0 THEN <<>>
    ELSE IF \E i \in 1..Len(seen) : seen[i] = Head(keys)
    THEN Unseen(Tail(keys), seen)
    ELSE <<Head(keys)>> \o Unseen(Tail(keys), seen)

\* The keys `for (k in x)` visits, in order: own enumerable keys, then the
\* prototype's that are not shadowed.
RECURSIVE ForInKeys(_)
ForInKeys(x) ==
    CASE x.k \in {"string", "array", "int8array", "int32array"} ->
           IndexKeys(Len(x.v))
      [] x.k = "object" ->
           LET own == [i \in 1..Len(x.v.own) |-> x.v.own[i].key]
           IN  own \o Unseen(ForInKeys(x.v.proto), own)
      [] OTHER -> <<>>

\* `for (e of x)`: a TypeError unless x is iterable.  (A string yields its
\* characters; the strings of the model hold no surrogate pairs.)
IsIterable(x) == x.k \in {"string", "array", "int8array", "int32array"}

IterItems(x) ==
    CASE x.k = "array" -> x.v
      [] x.k = "string" -> [i \in 1..Len(x.v) |-> Str(<<x.v[i]>>)]
      [] x.k \in {"int8array", "int32array"} -> [i \in 1..Len(x.v) |-> Num(x.v[i])]

\* Set.prototype.has compares with SameValueZero: primitives by value,
\* objects by identity, and two values read from different places of the
\* tree are never the same object.
SameValueZero(a, b) ==
    /\ a.k = b.k
    /\ a.k \in {"number", "float", "bigint", "string"}
    /\ a.v = b.v

Has(seen, key) == \E i \in 1..Len(seen) : SameValueZero(seen[i], key)

\* x === 'textures'
IsTextures(x) == x.k = "string" /\ x.v = K_textures

(***************************************************************************)
(* Hexadecimal rendering                                                   *)
(***************************************************************************)
RECURSIVE Concat(_)
Concat(ss) == IF Len(ss) = 0 THEN <<>> ELSE Head(ss) \o Concat(Tail(ss))

HexDigit(d) == IF d < 10 THEN 48 + d ELSE 87 + d

Hex2(n) == <<HexDigit(n \div 16), HexDigit(n % 16)>>
Hex4(n) == Hex2(n \div 256) \o Hex2(n % 256)

RECURSIVE HexNat(_)
HexNat(n) ==
    IF n < 16 THEN <<HexDigit(n)>> ELSE HexNat(n \div 16) \o <<HexDigit(n % 16)>>

RECURSIVE StripZeros(_)
StripZeros(s) ==
    IF Len(s) > 1 /\ s[1] = 48 THEN StripZeros(Tail(s)) ELSE s

RECURSIVE AddOne(_, _)
AddOne(b, i) ==
    IF i = 0 THEN b
    ELSE IF b[i] = 255 THEN AddOne([b EXCEPT ![i] = 0], i - 1)
    ELSE [b EXCEPT ![i] = b[i] + 1]

\* The magnitude of a negative 64-bit two's-complement value.
Negate8(b) == AddOne([i \in 1..8 |-> 255 - b[i]], 8)

\* value >>> 0 as its two 16-bit halves, for a Number that is an integer, a
\* NaN or below 1 in magnitude, for null, and for Number(n) of a BigInt n
\* below 2^53 in magnitude; the extractor's inputs in this model reach it
\* with nothing else.
ToUint32(x) ==
    CASE x.k = "number" -> <<(x.v \div 65536) % 65536, x.v % 65536>>
      [] x.k = "null" -> <<0, 0>>
      [] x.k = "float" /\ (x.v = CanonNaN \/ (Len(x.v) = 4 /\ x.v[1] % 128 < 63)
                           \/ (Len(x.v) = 8 /\ x.v[1] % 128 < 63)) -> <<0, 0>>
      [] x.k = "bigint" /\ ((x.v[1] = 0 /\ x.v[2] < 32)
                            \/ (x.v[1] = 255 /\ x.v[2] >= 224)) ->
           <<x.v[5] * 256 + x.v[6], x.v[7] * 256 + x.v[8]>>

\* The magnitude of a negative 32-bit integer as two 16-bit halves.
MagnitudeHalves(n) ==
    LET p == 0 - (n + 1)
    IN  IF p % 65536 = 65535 THEN <<(p \div 65536) + 1, 0>>
        ELSE <<p \div 65536, (p % 65536) + 1>>

\* id.toString(16) for an integer Number or a BigInt.
ToString16(x) ==
    CASE x.k = "number" /\ x.v >= 0 -> HexNat(x.v)
      [] x.k = "number" /\ x.v < 0 ->
           <<45>> \o StripZeros(Hex4(MagnitudeHalves(x.v)[1])
                                \o Hex4(MagnitudeHalves(x.v)[2]))
      [] x.k = "bigint" /\ x.v[1] < 128 ->
           StripZeros(Concat([i \in 1..8 |-> Hex2(x.v[i])]))
      [] x.k = "bigint" /\ x.v[1] >= 128 ->
           <<45>> \o StripZeros(Concat([i \in 1..8 |-> Hex2(Negate8(x.v)[i])]))

(***************************************************************************)
(* The record extractor.  A function that can throw yields [ok, v].        *)
(***************************************************************************)
Ok(v) == [ok |-> TRUE, v |-> v]
Thrown == [ok |-> FALSE, v |-> Undefined]

SkinData(name, customName, uuid, textureValue, textureSignature) ==
    [k |-> "skin", name |-> name, customName |-> customName, uuid |-> uuid,
     textureValue |-> textureValue, textureSignature |-> textureSignature]

\* padStart(8, '0')
RECURSIVE PadStart8(_)
PadStart8(h) == IF Len(h) >= 8 THEN h ELSE PadStart8(<<48>> \o h)

\* 32 hexadecimal digits cut 8-4-4-4-12.
Dashed(hex) ==
    Str(SubSeq(hex, 1, 8) \o <<45>> \o SubSeq(hex, 9, 12) \o <<45>>
        \o SubSeq(hex, 13, 16) \o <<45>> \o SubSeq(hex, 17, 20)
        \o <<45>> \o SubSeq(hex, 21, 32))

\* (value >>> 0).toString(16).padStart(8, '0') from the two 16-bit halves.
HexOfHalves(h) == Hex4(h[1]) \o Hex4(h[2])

\* intArrayToUUID without the `>>> 0`: each value rendered signed.
intArrayToUUID_Signed(intArray) ==
    IF ~(intArray.k = "array" /\ Len(intArray.v) = 4) THEN Null
    ELSE Dashed(Concat([i \in 1..4 |-> PadStart8(ToString16(intArray.v[i]))]))

intArrayToUUID(intArray) ==
    IF ~(intArray.k = "array" /\ Len(intArray.v) = 4) THEN Null
    ELSE Dashed(Concat([i \in 1..4 |-> HexOfHalves(ToUint32(intArray.v[i]))]))

\* if (idArray.every(v => v !== undefined)) uuid = intArrayToUUID(idArray)
UUIDOfParts(idArray) ==
    IF \A i \in 1..4 : idArray[i].k # "undefined"
    THEN intArrayToUUID(Arr(idArray))
    ELSE Null

\* The UUID branch of parseProfile.
ProfileUUID(id) ==
    IF ~Truthy(id) THEN Null
    ELSE IF id.k = "array" THEN intArrayToUUID(id)
    ELSE IF IsObjectKind(id) THEN
        UUIDOfParts(<<Or(Get(id, K_0), Get(id, K_0)), Or(Get(id, K_1), Get(id, K_1)),
                      Or(Get(id, K_2), Get(id, K_2)), Or(Get(id, K_3), Get(id, K_3))>>)
    ELSE IF id.k = "string" THEN id
    ELSE Str(ToString16(id))

\* p => p.name === 'textures' || p.Name === 'textures'
IsTextureProperty(p) ==
    IsTextures(Get(p, K_name)) \/ IsTextures(Get(p, K_Name))

FirstOf(S) == CHOOSE m \in S : \A n \in S : m <= n

\* properties.find(...) reads p.name of each element up to the one it
\* returns: the first element that cannot be read, and the first that is
\* the texture property (Len(ps) + 1 when there is none).
FirstUnreadable(ps) ==
    FirstOf({i \in 1..Len(ps) : ~CanRead(ps[i])} \cup {Len(ps) + 1})

FirstTextureProperty(ps) ==
    FirstOf({i \in 1..Len(ps) : CanRead(ps[i]) /\ IsTextureProperty(ps[i])}
            \cup {Len(ps) + 1})

\* The texture branch of parseProfile yields [ok, value, signature].
NoTexture == [ok |-> TRUE, value |-> Null, signature |-> Null]
TextureThrown == [ok |-> FALSE, value |-> Null, signature |-> Null]

TextureFrom(t) ==
    IF ~CanRead(t) THEN TextureThrown
    ELSE [ok |-> TRUE,
          value |-> Or(Get(t, K_Value), Get(t, K_value)),
          signature |-> Or(Get(t, K_Signature), Get(t, K_signature))]

FindTexture(ps, bad, hit) ==
    IF bad < hit THEN TextureThrown
    ELSE IF hit <= Len(ps) THEN TextureFrom(ps[hit])
    ELSE NoTexture

FirstTexture(textures) ==
    IF textures.k = "array" /\ Len(textures.v) > 0
    THEN TextureFrom(textures.v[1])
    ELSE NoTexture

ProfileTexture(properties) ==
    IF ~Truthy(properties) THEN NoTexture
    ELSE IF properties.k = "array"
    THEN FindTexture(properties.v, FirstUnreadable(properties.v),
                     FirstTextureProperty(properties.v))
    ELSE FirstTexture(Or(Or(Get(properties, K_textures),
                            Get(properties, K_Textures)), Arr(<<>>)))

\* The end of parseProfile with the custom name standing in for a missing
\* name.
BuildSkin_NameFallback(name, customName, uuid, texture) ==
    IF ~texture.ok THEN Thrown
    ELSE IF ~Truthy(Or(name, customName)) /\ ~Truthy(uuid) /\ ~Truthy(texture.value)
    THEN Ok(Null)
    ELSE Ok(SkinData(Or(name, customName), customName, uuid, texture.value,
                     texture.signature))

\* The end of parseProfile: null when name, uuid and texture value are all
\* falsy, the record otherwise.
BuildSkin(name, customName, uuid, texture) ==
    IF ~texture.ok THEN Thrown
    ELSE IF ~Truthy(name) /\ ~Truthy(uuid) /\ ~Truthy(texture.value)
    THEN Ok(Null)
    ELSE Ok(SkinData(name, customName, uuid, texture.value, texture.signature))

parseProfile(profile, customName) ==
    IF profile.k = "string"
    THEN Ok(SkinData(profile, customName, Null, Null, Null))
    ELSE BuildSkin(Or(Or(Get(profile, K_Name), Get(profile, K_name)), Null),
                   customName,
                   ProfileUUID(Or(Or(Or(Get(profile, K_Id), Get(profile, K_id)),
                                     Get(profile, K_UUID)), Get(profile, K_uuid))),
                   ProfileTexture(Or(Get(profile, K_Properties),
                                     Get(profile, K_properties))))

\* if (!profile) return null; ... return parseProfile(profile, customName)
ProfileOf(entity, profile) ==
    IF ~Truthy(profile) THEN Ok(Null)
    ELSE parseProfile(profile,
                      Or(Or(Get(entity, K_custom_name), Get(entity, K_CustomName)),
                         Null))

extractSkinFromEntity(entity) ==
    IF ~CanRead(entity) THEN Thrown
    ELSE ProfileOf(entity, Or(Or(Get(entity, K_profile), Get(entity, K_SkullOwner)),
                              Get(entity, K_Owner)))

\* The deduplication key with the name tried first.
SkinKey_NameFirst(skinData) ==
    Or(Or(skinData.name, skinData.uuid), skinData.textureValue)

\* skinData.textureValue || skinData.uuid || skinData.name
SkinKey(skinData) == Or(Or(skinData.textureValue, skinData.uuid), skinData.name)

\* The state of the walk is acc = [ok, skins, seen]: ok turns FALSE when a
\* TypeError is thrown, which ends the walk.

\* if (key && !seenTextures.has(key)) { skins.push(...); seenTextures.add(key) }
CollectKeyed(acc, skinData, key) ==
    IF Truthy(key) /\ ~Has(acc.seen, key)
    THEN [ok |-> TRUE, skins |-> Append(acc.skins, skinData),
          seen |-> Append(acc.seen, key)]
    ELSE acc

\* if (skinData) { ... }
Collect(acc, skinData) ==
    IF ~skinData.ok THEN [acc EXCEPT !.ok = FALSE]
    ELSE IF skinData.v.k = "skin" THEN CollectKeyed(acc, skinData.v, SkinKey(skinData.v))
    ELSE acc

\* The body of the loop over a region's block entities.
EntityStep(acc, entity) ==
    IF ~acc.ok THEN acc ELSE Collect(acc, extractSkinFromEntity(entity))

RECURSIVE EntityLoop(_, _, _)
EntityLoop(items, i, acc) ==
    IF i > Len(items) THEN acc
    ELSE EntityLoop(items, i + 1, EntityStep(acc, items[i]))

\* for (const entity of blockEntities)
EntitiesOf(acc, blockEntities) ==
    IF ~IsIterable(blockEntities) THEN [acc EXCEPT !.ok = FALSE]
    ELSE EntityLoop(IterItems(blockEntities), 1, acc)

\* The body of the loop over the regions.
RegionStep(acc, region) ==
    IF ~acc.ok THEN acc
    ELSE IF ~CanRead(region) THEN [acc EXCEPT !.ok = FALSE]
    ELSE EntitiesOf(acc, Or(Or(Get(region, K_BlockEntities),
                               Get(region, K_TileEntities)), Arr(<<>>)))

\* for (const regionName in regions)
RECURSIVE RegionLoop(_, _, _, _)
RegionLoop(regions, keys, i, acc) ==
    IF i > Len(keys) THEN acc
    ELSE RegionLoop(regions, keys, i + 1, RegionStep(acc, Get(regions, keys[i])))

\* [ok, v]: the skins returned, or ok = FALSE for a thrown TypeError.
WalkResult(acc) == [ok |-> acc.ok, v |-> IF acc.ok THEN acc.skins ELSE <<>>]

WalkRegions(regions) ==
    WalkResult(RegionLoop(regions, ForInKeys(regions), 1,
                          [ok |-> TRUE, skins |-> <<>>, seen |-> <<>>]))

extractSkinsFromNBT(nbtData) ==
    IF ~CanRead(nbtData.value) THEN Thrown
    ELSE WalkRegions(Or(Or(Get(nbtData.value, K_Regions),
                           Get(nbtData.value, K_regions)), Obj(<<>>, BaseProto)))

(***************************************************************************)
(* The tag tree a document is written from, and its reference encoding     *)
(* (the binary layout the decoder reads: big-endian, a compound is its     *)
(* entries as type byte, name, payload, closed by an end marker).          *)
(* A node is [t, et, v]: t its tag type, et the declared element type of a *)
(* list, v its content (an integer, a sequence of bytes, of code units, of *)
(* nodes, or of compound entries [key, val] in stream order).              *)
(***************************************************************************)
N(t, et, v) == [t |-> t, et |-> et, v |-> v]
E(key, val) == [key |-> key, val |-> val]

I16Bytes(n) == <<(n \div 256) % 256, n % 256>>
I32Bytes(n) == <<(n \div 16777216) % 256, (n \div 65536) % 256,
                 (n \div 256) % 256, n % 256>>

Utf8OfUnit(u) ==
    IF u < 128 THEN <<u>>
    ELSE IF u < 2048 THEN <<192 + (u \div 64), 128 + (u % 64)>>
    ELSE <<224 + (u \div 4096), 128 + ((u \div 64) % 64), 128 + (u % 64)>>

Utf8Encode(s) ==
    IF \A i \in 1..Len(s) : s[i] < 128 THEN s
    ELSE Concat([i \in 1..Len(s) |-> Utf8OfUnit(s[i])])

\* The length prefix is the unsigned 16-bit byte count.
EncodeString(s) ==
    LET b == Utf8Encode(s) IN <<Len(b) \div 256, Len(b) % 256>> \o b

RECURSIVE EncodePayload(_)
EncodePayload(n) ==
    CASE n.t = TAG_BYTE -> <<n.v % 256>>
      [] n.t = TAG_SHORT -> I16Bytes(n.v)
      [] n.t = TAG_INT -> I32Bytes(n.v)
      [] n.t \in {TAG_LONG, TAG_FLOAT, TAG_DOUBLE} -> n.v
      [] n.t = TAG_BYTE_ARRAY ->
           I32Bytes(Len(n.v)) \o [i \in 1..Len(n.v) |-> n.v[i] % 256]
      [] n.t = TAG_STRING -> EncodeString(n.v)
      [] n.t = TAG_LIST ->
           <<n.et>> \o I32Bytes(Len(n.v))
           \o Concat([i \in 1..Len(n.v) |-> EncodePayload(n.v[i])])
      [] n.t = TAG_COMPOUND ->
           Concat([i \in 1..Len(n.v) |->
                      <<n.v[i].val.t>> \o EncodeString(n.v[i].key)
                      \o EncodePayload(n.v[i].val)])
           \o <<TAG_END>>
      [] n.t = TAG_INT_ARRAY ->
           I32Bytes(Len(n.v)) \o Concat([i \in 1..Len(n.v) |-> I32Bytes(n.v[i])])
      [] n.t = TAG_LONG_ARRAY ->
           I32Bytes(Len(n.v)) \o Concat(n.v)
      [] OTHER -> <<>>

\* A document: the root type byte, the root name, the root compound.
Encode(d) ==
    <<TAG_COMPOUND>> \o EncodeString(d.name) \o EncodePayload(N(TAG_COMPOUND, 0, d.root))

\* The decoded form of a tag tree as the data model has it: every compound
\* keeps its keys in stream order.
RECURSIVE ToJS(_)
ToJS(n) ==
    CASE n.t = TAG_END -> Null
      [] n.t \in {TAG_BYTE, TAG_SHORT, TAG_INT} -> Num(n.v)
      [] n.t = TAG_LONG -> BigInt(n.v)
      [] n.t = TAG_FLOAT -> F32Value(n.v)
      [] n.t = TAG_DOUBLE -> F64Value(n.v)
      [] n.t = TAG_BYTE_ARRAY -> I8Arr(n.v)
      [] n.t = TAG_STRING -> Str(n.v)
      [] n.t = TAG_LIST -> Arr([i \in 1..Len(n.v) |-> ToJS(n.v[i])])
      [] n.t = TAG_COMPOUND ->
           Obj([i \in 1..Len(n.v) |-> Prop(n.v[i].key, ToJS(n.v[i].val))],
               BaseProto)
      [] n.t = TAG_INT_ARRAY -> I32Arr(n.v)
      [] n.t = TAG_LONG_ARRAY -> Arr([i \in 1..Len(n.v) |-> BigInt(n.v[i])])

\* Does a discriminant outside 0..12 appear in the tree?
RECURSIVE HasUnknownType(_)
HasUnknownType(n) ==
    \/ n.t > TAG_LONG_ARRAY
    \/ n.t = TAG_LIST /\ (n.et > TAG_LONG_ARRAY
                          \/ \E i \in 1..Len(n.v) : HasUnknownType(n.v[i]))
    \/ n.t = TAG_COMPOUND /\ \E i \in 1..Len(n.v) : HasUnknownType(n.v[i].val)

\* Does a string of the tree (a key or a value) take `len` bytes or more?
RECURSIVE HasStringOf(_, _)
HasStringOf(n, len) ==
    \/ n.t = TAG_STRING /\ Len(Utf8Encode(n.v)) >= len
    \/ n.t = TAG_LIST /\ \E i \in 1..Len(n.v) : HasStringOf(n.v[i], len)
    \/ n.t = TAG_COMPOUND /\ \E i \in 1..Len(n.v) :
          \/ Len(Utf8Encode(n.v[i].key)) >= len
          \/ HasStringOf(n.v[i].val, len)

RECURSIVE DuplicateFree(_)
DuplicateFree(n) ==
    /\ n.t = TAG_LIST => \A i \in 1..Len(n.v) : DuplicateFree(n.v[i])
    /\ n.t = TAG_COMPOUND =>
         /\ \A i, j \in 1..Len(n.v) : n.v[i].key = n.v[j].key => i = j
         /\ \A i \in 1..Len(n.v) : DuplicateFree(n.v[i].val)

Root(d) == N(TAG_COMPOUND, 0, d.root)

(***************************************************************************)
(* Decoding documents: a document is written entry by entry, encoded, and  *)
(* then decoded whole, cut short, or with its first byte replaced.         *)
(***************************************************************************)
MaxEntries == 2
MaxDepth == 2
MaxCut == 14
MaxRootType == 13
LongStringLen == 32768

NoParse == [ok |-> FALSE, name |-> <<>>, value |-> Undefined, off |-> 0]
NoSkins == [ok |-> FALSE, v |-> <<>>]
NoSkin == [ok |-> FALSE, v |-> Undefined]

K_a == <<97>>
K_w == <<119>>

RootNames == {<<>>, <<114>>}
DecodeKeys == {K_a, K_1, K_0, K__proto__}
WrapKeys == {K_w}
UnknownType == TAG_LONG_ARRAY + 1

Leaves ==
    << N(TAG_BYTE, 0, -1),
      N(TAG_SHORT, 0, -2),
      N(TAG_INT, 0, -737154161),
      N(TAG_LONG, 0, <<255, 0, 0, 0, 0, 0, 0, 1>>),
      N(TAG_FLOAT, 0, <<63, 128, 0, 0>>),
      N(TAG_DOUBLE, 0, <<63, 224, 0, 0, 0, 0, 0, 0>>),
      N(TAG_BYTE_ARRAY, 0, <<-1, 2>>),
      N(TAG_STRING, 0, <<104, 105>>),
      N(TAG_LIST, TAG_INT, <<N(TAG_INT, 0, 1), N(TAG_INT, 0, 2)>>),
      N(TAG_LIST, TAG_END, <<N(TAG_END, 0, 0), N(TAG_END, 0, 0)>>),
      N(TAG_LIST, UnknownType, <<>>),
      N(TAG_COMPOUND, 0, <<>>),
      N(TAG_INT_ARRAY, 0, <<1, -1>>),
      N(TAG_LONG_ARRAY, 0, <<<<0, 0, 0, 0, 128, 0, 0, 0>>>>),
      N(UnknownType, 0, 0) >>

LongString == N(TAG_STRING, 0, [i \in 1..LongStringLen |-> 0])

InitDecode ==
    /\ \E name \in RootNames : doc = [name |-> name, root |-> <<>>, depth |-> 0, closed |-> FALSE]
    /\ buffer = Encode(doc)
    /\ mode = "whole"
    /\ pc = "build"
    /\ parsed = NoParse
    /\ skins = NoSkins
    /\ skin = NoSkin

Rebuilt(d) ==
    /\ doc' = d
    /\ buffer' = Encode(d)
    /\ UNCHANGED <<mode, pc, parsed, skins, skin>>

AddEntry(key, leaf) ==
    /\ pc = "build" /\ ~doc.closed /\ doc.depth = 0 /\ Len(doc.root) < MaxEntries
    /\ Rebuilt([doc EXCEPT !.root = Append(@, E(key, leaf))])

\* The one entry of a document that takes no more: a string whose byte count
\* needs the top bit of the 16-bit length prefix.
AddLongString(key) ==
    /\ pc = "build" /\ Len(doc.root) = 0
    /\ Rebuilt([doc EXCEPT !.root = <<E(key, LongString)>>, !.closed = TRUE])

WrapCompound(key) ==
    /\ pc = "build" /\ ~doc.closed /\ Len(doc.root) = 1 /\ doc.depth < MaxDepth
    /\ Rebuilt([doc EXCEPT !.root = <<E(key, N(TAG_COMPOUND, 0, @))>>,
                           !.depth = @ + 1])

WrapList(key) ==
    /\ pc = "build" /\ ~doc.closed /\ Len(doc.root) = 1 /\ doc.depth < MaxDepth
    /\ Rebuilt([doc EXCEPT
                  !.root = <<E(key, N(TAG_LIST, TAG_COMPOUND,
                                      <<N(TAG_COMPOUND, 0, @)>>))>>,
                  !.depth = @ + 1])

\* The cut points tried: up to MaxCut bytes from either end.
Min(a, b) == IF a < b THEN a ELSE b
Max(a, b) == IF a > b THEN a ELSE b

CutPoints(buf) ==
    (0..Min(MaxCut, Len(buf) - 1)) \cup (Max(0, Len(buf) - 1 - MaxCut)..(Len(buf) - 1))

Truncate(k) ==
    /\ pc = "build"
    /\ buffer' = SubSeq(buffer, 1, k)
    /\ mode' = "cut"
    /\ pc' = "input"
    /\ UNCHANGED <<doc, parsed, skins, skin>>

SetRootType(b) ==
    /\ pc = "build"
    /\ b # TAG_COMPOUND
    /\ buffer' = [buffer EXCEPT ![1] = b]
    /\ mode' = "retyped"
    /\ pc' = "input"
    /\ UNCHANGED <<doc, parsed, skins, skin>>

Parse ==
    /\ pc \in {"build", "input"}
    /\ parsed' = parse(buffer)
    /\ pc' = "parsed"
    /\ UNCHANGED <<doc, buffer, mode, skins, skin>>

NextDecode ==
    \/ \E key \in DecodeKeys, i \in 1..Len(Leaves) : AddEntry(key, Leaves[i])
    \/ \E key \in DecodeKeys : AddLongString(key)
    \/ \E key \in WrapKeys : WrapCompound(key)
    \/ \E key \in WrapKeys : WrapList(key)
    \/ \E k \in CutPoints(buffer) : Truncate(k)
    \/ \E b \in (0..MaxRootType) \cup {255} : SetRootType(b)
    \/ Parse

SpecDecode == InitDecode /\ [][NextDecode]_vars

(***************************************************************************)
(* Structural identity of two decoded values: the same kinds, the same     *)
(* contents, and for objects the same own keys in the same order.          *)
(***************************************************************************)
RECURSIVE JsEq(_, _)
JsEq(a, b) ==
    /\ a.k = b.k
    /\ CASE a.k \in {"undefined", "null", "base"} -> TRUE
         [] a.k = "array" ->
              /\ Len(a.v) = Len(b.v)
              /\ \A i \in 1..Len(a.v) : JsEq(a.v[i], b.v[i])
         [] a.k = "object" ->
              /\ Len(a.v.own) = Len(b.v.own)
              /\ \A i \in 1..Len(a.v.own) :
                    /\ a.v.own[i].key = b.v.own[i].key
                    /\ JsEq(a.v.own[i].val, b.v.own[i].val)
              /\ JsEq(a.v.proto, b.v.proto)
         [] OTHER -> a.v = b.v

\* The documents of the claims about well-formed input.
ValidDoc == ~HasUnknownType(Root(doc))

DecodedWhole == pc = "parsed" /\ mode = "whole"

(***************************************************************************)
(* Claims about the decoder                                                *)
(***************************************************************************)

\* C1: decoding a valid document cut anywhere strictly before its final byte
\* ends in an error, never in a result.
C1_TruncationFails ==
    (pc = "parsed" /\ mode = "cut" /\ ValidDoc) => ~parsed.ok

\* C2: a tag-type discriminant outside 0..12 anywhere in the encoded tree (a
\* compound entry's type byte, or a list's declared element type, the list
\* of length zero included) makes decode fail.
C2_UnknownTypeFails ==
    (DecodedWhole /\ HasUnknownType(Root(doc))) => ~parsed.ok

\* C3: a buffer whose first byte is a discriminant other than compound makes
\* parse fail before it reads the root name or any payload, whatever the
\* remaining bytes are.
C3_RootTypeGuard ==
    (pc = "parsed" /\ Len(buffer) >= 1 /\ buffer[1] # TAG_COMPOUND)
        => (~parsed.ok /\ parsed.off = 1 /\ parsed.name = <<>>)

C3_Witness ==
    /\ pc = "parsed" /\ mode = "retyped"
    /\ buffer[1] = TAG_STRING /\ Len(buffer) > 8
    /\ ~parsed.ok /\ parsed.off = 1

\* The keys that occur more than once in the root compound.
RepeatedAt(i) == \E j \in 1..Len(doc.root) : j # i /\ doc.root[j].key = doc.root[i].key
LastAt(i) == \A j \in 1..Len(doc.root) : doc.root[j].key = doc.root[i].key => j <= i

\* C8: a compound holding the same key more than once decodes, without
\* failing, to exactly one entry for that key, holding the value of the last
\* occurrence; for every key string.
C8_DuplicateKeyLastWins ==
    (DecodedWhole /\ ValidDoc) =>
        \A i \in 1..Len(doc.root) :
            (RepeatedAt(i) /\ LastAt(i)) =>
                /\ parsed.ok
                /\ Cardinality({n \in 1..Len(parsed.value.v.own) :
                        parsed.value.v.own[n].key = doc.root[i].key}) = 1
                /\ \A n \in 1..Len(parsed.value.v.own) :
                        parsed.value.v.own[n].key = doc.root[i].key =>
                            JsEq(parsed.value.v.own[n].val, ToJS(doc.root[i].val))

\* C9: decoding the reference encoding of a tag tree with duplicate-free
\* keys reproduces the tree exactly: scalar values, list and array lengths
\* and element order, and every compound's keys in the same order with the
\* same values, none missing and none added.
C9_RoundTrip ==
    (DecodedWhole /\ ValidDoc /\ DuplicateFree(Root(doc))) =>
        /\ parsed.ok
        /\ parsed.name = doc.name
        /\ JsEq(parsed.value, ToJS(Root(doc)))

(***************************************************************************)
(* Normalising an identifier: a profile compound whose identifier holds    *)
(* four 32-bit values, as an int-array tag, as a list of ints or as a      *)
(* compound keyed "0".."3", is encoded, decoded and given to parseProfile. *)
(***************************************************************************)
UUIDInts == {-737154161, 1675314149, -1429125736, -1059509461,
             0, 1, -1, 2147483647, -2147483647 - 1}
UUIDForms == {"intarray", "list", "compound"}
UUIDKeys == {K_Id, K_uuid}

IdNode(form, ints) ==
    CASE form = "intarray" -> N(TAG_INT_ARRAY, 0, ints)
      [] form = "list" ->
           N(TAG_LIST, TAG_INT, [i \in 1..4 |-> N(TAG_INT, 0, ints[i])])
      [] form = "compound" ->
           N(TAG_COMPOUND, 0, [i \in 1..4 |->
                E(NatDigits(i - 1), N(TAG_INT, 0, ints[i]))])

InitUUID ==
    /\ \E form \in UUIDForms, key \in UUIDKeys,
          a \in UUIDInts, b \in UUIDInts, c \in UUIDInts, d \in UUIDInts :
          doc = [name |-> <<>>, form |-> form, ints |-> <<a, b, c, d>>,
                 root |-> <<E(key, IdNode(form, <<a, b, c, d>>))>>]
    /\ buffer = Encode(doc)
    /\ mode = "whole"
    /\ pc = "input"
    /\ parsed = NoParse
    /\ skins = NoSkins
    /\ skin = NoSkin

\* The decoded root compound is the profile.
ParseProfile ==
    /\ pc = "input"
    /\ parsed' = parse(buffer)
    /\ skin' = IF parsed'.ok THEN parseProfile(parsed'.value, Null) ELSE NoSkin
    /\ pc' = "profiled"
    /\ UNCHANGED <<doc, buffer, mode, skins>>

NextUUID == ParseProfile

SpecUUID == InitUUID /\ [][NextUUID]_vars

\* The i-th hex digit from the right of the two's-complement form of n.
HexDigitOf(n, i) == HexDigit((n \div Pow2(4 * i)) % 16)

Hex8(n) == [i \in 1..8 |-> HexDigitOf(n, 8 - i)]

ExpectedUUID(ints) ==
    LET h == Hex8(ints[1]) \o Hex8(ints[2]) \o Hex8(ints[3]) \o Hex8(ints[4])
    IN  SubSeq(h, 1, 8) \o <<45>> \o SubSeq(h, 9, 12) \o <<45>>
        \o SubSeq(h, 13, 16) \o <<45>> \o SubSeq(h, 17, 20) \o <<45>>
        \o SubSeq(h, 21, 32)

\* C6: for every four signed 32-bit values, parseProfile yields the same
\* UUID for the array forms and for the compound keyed "0".."3": the
\* 8-4-4-4-12 regrouping of the four values' unsigned 8-digit lowercase hex.
C6_UUIDNormalised ==
    pc = "profiled" =>
        /\ skin.ok /\ skin.v.k = "skin"
        /\ skin.v.uuid.k = "string"
        /\ skin.v.uuid.v = ExpectedUUID(doc.ints)

\* d40feb8f-63db-43e5-aad1-4598c0d92b2b
SampleUUID ==
    <<100, 52, 48, 102, 101, 98, 56, 102, 45, 54, 51, 100, 98, 45, 52, 51,
      101, 53, 45, 97, 97, 100, 49, 45, 52, 53, 57, 56, 99, 48, 100, 57, 50,
      98, 50, 98>>

C6_Witness ==
    /\ pc = "profiled" /\ doc.form = "compound"
    /\ doc.ints = <<-737154161, 1675314149, -1429125736, -1059509461>>
    /\ skin.ok /\ skin.v.uuid.k = "string" /\ skin.v.uuid.v = SampleUUID

(***************************************************************************)
(* Extracting skins: a litematic-shaped document is written region by      *)
(* region and block entity by block entity, encoded, decoded and walked.   *)
(***************************************************************************)
MaxRegions == 2
MaxSkulls == 2

StrN(str) == N(TAG_STRING, 0, str)
Cmp(entries) == N(TAG_COMPOUND, 0, entries)
EndN == N(TAG_END, 0, 0)

S_A == <<65>>
S_B == <<66>>
S_C == <<67>>
S_D == <<68>>
S_T == <<84>>
S_X == <<88>>
S_skull == <<109, 105, 110, 101, 99, 114, 97, 102, 116, 58, 115, 107, 117, 108, 108>>
S_chest == <<109, 105, 110, 101, 99, 114, 97, 102, 116, 58, 99, 104, 101, 115, 116>>

UUID1 == <<-737154161, 1675314149, -1429125736, -1059509461>>

\* Properties as a list of {name: "textures", <vkey>: value}.
TextureList(vkey, value) ==
    N(TAG_LIST, TAG_COMPOUND,
      <<Cmp(<<E(K_name, StrN(K_textures)), E(vkey, value)>>)>>)

\* Properties as a compound {textures: [{Value: value}]}.
TextureCompound(value) ==
    Cmp(<<E(K_textures, N(TAG_LIST, TAG_COMPOUND, <<Cmp(<<E(K_Value, value)>>)>>))>>)

Skull(pkey, profileNode) ==
    Cmp(<<E(K_id, StrN(S_skull)), E(pkey, profileNode)>>)

Entities ==
    << Cmp(<<E(K_id, StrN(S_chest))>>),
       Skull(K_SkullOwner, StrN(S_A)),
       Skull(K_profile, Cmp(<<E(K_name, StrN(S_A))>>)),
       Skull(K_profile, Cmp(<<E(K_Name, StrN(S_B)),
                              E(K_Id, N(TAG_INT_ARRAY, 0, UUID1)),
                              E(K_properties, TextureList(K_value, StrN(S_T)))>>)),
       Skull(K_Owner, Cmp(<<E(K_Name, StrN(S_A)),
                            E(K_Properties, TextureCompound(StrN(S_T)))>>)),
       Skull(K_profile, Cmp(<<E(K_id, N(TAG_INT_ARRAY, 0, UUID1))>>)),
       Skull(K_SkullOwner, Cmp(<<E(K_Id, IdNode("compound", UUID1))>>)),
       Skull(K_profile, Cmp(<<E(K_Name, StrN(<<>>))>>)),
       Skull(K_profile, Cmp(<<>>)),
       Cmp(<<E(K_custom_name, StrN(S_X)), E(K_profile, Cmp(<<>>))>>),
       Cmp(<<E(K_CustomName, StrN(S_X)), E(K_profile, Cmp(<<E(K_Name, StrN(S_B))>>))>>),
       Skull(K_profile, Cmp(<<E(K_Name, StrN(S_C)),
                              E(K_Properties, TextureList(K_Value, StrN(<<>>)))>>)),
       Skull(K_profile, Cmp(<<E(K_Name, StrN(S_D)),
                              E(K_Properties, TextureList(K_Value, StrN(<<>>)))>>)),
       Skull(K_profile, Cmp(<<E(K_Properties, TextureList(K_Value, Cmp(<<>>)))>>)),
       Skull(K_profile, Cmp(<<E(K_UUID, StrN(S_A))>>)),
       Skull(K_profile, Cmp(<<E(K_Id, N(TAG_INT, 0, 255))>>)),
       Skull(K_profile, N(TAG_INT, 0, 5)),
       Skull(K_profile, Cmp(<<E(K_Properties, N(TAG_LIST, TAG_END, <<EndN>>))>>)),
       Skull(K_profile, Cmp(<<E(K_Properties,
                                Cmp(<<E(K_textures, N(TAG_LIST, TAG_END, <<EndN>>))>>))>>)) >>

\* Values of the wrong shape, to stand where the regions compound, a region
\* or a block-entity list is expected.
Misfits ==
    << N(TAG_BYTE, 0, 0),
       N(TAG_INT, 0, 5),
       N(TAG_LONG, 0, <<0, 0, 0, 0, 0, 0, 0, 1>>),
       N(TAG_DOUBLE, 0, <<63, 224, 0, 0, 0, 0, 0, 0>>),
       StrN(<<97, 98>>),
       N(TAG_LIST, TAG_END, <<EndN, EndN>>),
       N(TAG_LIST, TAG_INT, <<N(TAG_INT, 0, 1)>>),
       N(TAG_INT_ARRAY, 0, <<1>>),
       Cmp(<<>>) >>

RegionNames == {<<114>>, <<50>>, <<49>>}
RegionsKeys == {K_Regions, K_regions}
EntityKeys == {K_BlockEntities, K_TileEntities}

\* doc.root is <<E(regionsKey, Cmp(regions))>>; a region is
\* E(name, Cmp(<<E(entityKey, list of block entities)>>)).
InitExtract ==
    /\ \E rk \in RegionsKeys, ek \in EntityKeys :
          doc = [name |-> <<>>, root |-> <<E(rk, Cmp(<<>>))>>, entityKey |-> ek,
                 skulls |-> 0, open |-> FALSE, misfit |-> FALSE]
    /\ buffer = Encode(doc)
    /\ mode = "whole"
    /\ pc = "build"
    /\ parsed = NoParse
    /\ skins = NoSkins
    /\ skin = NoSkin

Regions(d) == d.root[1].val

AddRegion(name) ==
    /\ pc = "build" /\ ~doc.misfit
    /\ Len(Regions(doc).v) < MaxRegions
    /\ \A i \in 1..Len(Regions(doc).v) : Regions(doc).v[i].key # name
    /\ Rebuilt([doc EXCEPT
          !.root[1].val.v = Append(@, E(name, Cmp(<<E(doc.entityKey,
                                   N(TAG_LIST, TAG_COMPOUND, <<>>))>>))),
          !.open = TRUE])

AddEntity(entity) ==
    /\ pc = "build" /\ doc.open /\ doc.skulls < MaxSkulls
    /\ Rebuilt([doc EXCEPT
          !.root[1].val.v[Len(Regions(doc).v)].val.v[1].val.v = Append(@, entity),
          !.skulls = @ + 1])

\* A misfit in place of the regions compound.
PutRegions(misfitNode) ==
    /\ pc = "build" /\ ~doc.misfit /\ Len(Regions(doc).v) = 0
    /\ Rebuilt([doc EXCEPT !.root[1].val = misfitNode, !.misfit = TRUE])

\* A misfit in place of the only region.
PutRegion(name, misfitNode) ==
    /\ pc = "build" /\ ~doc.misfit /\ Len(Regions(doc).v) = 0
    /\ Rebuilt([doc EXCEPT !.root[1].val.v = Append(@, E(name, misfitNode)),
                           !.open = FALSE, !.misfit = TRUE])

\* A misfit in place of the only region's block-entity list.
PutEntityList(name, misfitNode) ==
    /\ pc = "build" /\ ~doc.misfit /\ Len(Regions(doc).v) = 0
    /\ Rebuilt([doc EXCEPT
          !.root[1].val.v = Append(@, E(name, Cmp(<<E(doc.entityKey, misfitNode)>>))),
          !.open = FALSE, !.misfit = TRUE])

Extract ==
    /\ pc = "parsed" /\ parsed.ok
    /\ skins' = extractSkinsFromNBT(parsed)
    /\ pc' = "extracted"
    /\ UNCHANGED <<doc, buffer, mode, parsed, skin>>

NextExtract ==
    \/ \E name \in RegionNames : AddRegion(name)
    \/ \E i \in 1..Len(Entities) : AddEntity(Entities[i])
    \/ \E i \in 1..Len(Misfits) : PutRegions(Misfits[i])
    \/ \E name \in RegionNames, i \in 1..Len(Misfits) : PutRegion(name, Misfits[i])
    \/ \E name \in RegionNames, i \in 1..Len(Misfits) : PutEntityList(name, Misfits[i])
    \/ Parse
    \/ Extract

SpecExtract == InitExtract /\ [][NextExtract]_vars

(***************************************************************************)
(* Properties of the extraction.                                           *)
(***************************************************************************)
Extracted == pc = "extracted"

Present(x) == x.k \notin {"undefined", "null"}
IsString(x) == x.k = "string"
IsSkin(x) == x.k = "skin"

SkinEq(a, b) ==
    /\ JsEq(a.name, b.name)
    /\ JsEq(a.customName, b.customName)
    /\ JsEq(a.uuid, b.uuid)
    /\ JsEq(a.textureValue, b.textureValue)
    /\ JsEq(a.textureSignature, b.textureSignature)

\* The block-entity records of a document without misfits, in the order of
\* the encoded stream.
StreamRecords(d) ==
    Concat([r \in 1..Len(Regions(d).v) |-> Regions(d).v[r].val.v[1].val.v])

\* The decoded records in the order the walk visits them.
WalkRecords ==
    LET root == parsed.value
        regions == Or(Or(Get(root, K_Regions), Get(root, K_regions)),
                      Obj(<<>>, BaseProto))
        keys == ForInKeys(regions)
    IN  Concat([r \in 1..Len(keys) |->
                  IterItems(Or(Or(Get(Get(regions, keys[r]), K_BlockEntities),
                                  Get(Get(regions, keys[r]), K_TileEntities)),
                               Arr(<<>>)))])

\* The profiles of the walked records that yield one.
WalkSkins ==
    SelectSeq([i \in 1..Len(WalkRecords) |-> extractSkinFromEntity(WalkRecords[i]).v],
              IsSkin)

\* The profiles of the records in stream order.
StreamSkins ==
    SelectSeq([i \in 1..Len(StreamRecords(doc)) |->
                  extractSkinFromEntity(ToJS(StreamRecords(doc)[i])).v],
              IsSkin)

\* The first position of a profile in a sequence of profiles (one past the
\* end when it is not there).
Pos(s, ss) == FirstOf({i \in 1..Len(ss) : SkinEq(ss[i], s)} \cup {Len(ss) + 1})

\* The key as the words "texture value if present, else UUID, else name".
PresentKey(s) ==
    IF Present(s.textureValue) THEN s.textureValue
    ELSE IF Present(s.uuid) THEN s.uuid
    ELSE s.name

\* The key as the first non-empty of texture value, UUID and name.
NonEmptyKey(s) ==
    IF Truthy(s.textureValue) THEN s.textureValue
    ELSE IF Truthy(s.uuid) THEN s.uuid
    ELSE s.name

\* The first walked profile with the non-empty string key of s.
FirstWithKey(s) ==
    WalkSkins[FirstOf({i \in 1..Len(WalkSkins) :
                          JsEq(NonEmptyKey(WalkSkins[i]), NonEmptyKey(s))}
                      \cup {Len(WalkSkins)})]

\* C4: the result holds at most one profile per deduplication
\* key, the key being the texture value if present, else the UUID, else the
\* name; two records with the same texture value contribute one profile.
C4_OnePerPresentKey ==
    (Extracted /\ skins.ok) =>
        \A i \in 1..Len(skins.v) : \A j \in (i + 1)..Len(skins.v) :
            ~JsEq(PresentKey(skins.v[i]), PresentKey(skins.v[j]))

\* What the deduplication does guarantee (C4 apart from the cases in which
\* it fails): with the key taken as the first non-empty of texture value,
\* UUID and name, the result holds at most one profile per string key, every
\* non-empty string key of a walked record is in the result, and the profile
\* kept for a key is the one of the first walked record with that key.
C4_OnePerNonEmptyKey ==
    (Extracted /\ skins.ok) =>
        /\ \A i \in 1..Len(skins.v) : \A j \in (i + 1)..Len(skins.v) :
              (IsString(NonEmptyKey(skins.v[i])) /\ IsString(NonEmptyKey(skins.v[j])))
                  => NonEmptyKey(skins.v[i]).v # NonEmptyKey(skins.v[j]).v
        /\ \A n \in 1..Len(skins.v) :
              IsString(NonEmptyKey(skins.v[n]))
                  => /\ Len(NonEmptyKey(skins.v[n]).v) > 0
                     /\ SkinEq(skins.v[n], FirstWithKey(skins.v[n]))
        /\ \A m \in 1..Len(WalkSkins) :
              (IsString(NonEmptyKey(WalkSkins[m])) /\ Len(NonEmptyKey(WalkSkins[m]).v) > 0)
                  => \E n \in 1..Len(skins.v) :
                        JsEq(NonEmptyKey(skins.v[n]), NonEmptyKey(WalkSkins[m]))

\* Two walked records with the same non-empty texture value and different
\* names gave one profile, the first one's.
C4_Witness ==
    /\ Extracted /\ skins.ok
    /\ Len(skins.v) = 1
    /\ Len(WalkSkins) = 2
    /\ IsString(WalkSkins[1].textureValue) /\ WalkSkins[1].textureValue.v = S_T
    /\ JsEq(WalkSkins[1].textureValue, WalkSkins[2].textureValue)
    /\ ~JsEq(WalkSkins[1].name, WalkSkins[2].name)
    /\ SkinEq(skins.v[1], WalkSkins[1])

\* C5: the profiles of the result are in the order in which their records
\* appear in the encoded tree: regions in stream order, whatever their
\* names, and the block entities of a region in list order.  (A profile is
\* placed by the first record in the stream that yields it.)
C5_StreamOrder ==
    (Extracted /\ skins.ok /\ ~doc.misfit) =>
        \A i \in 1..Len(skins.v) : \A j \in (i + 1)..Len(skins.v) :
            Pos(skins.v[i], StreamSkins) <= Pos(skins.v[j], StreamSkins)

\* C7: the extraction returns for every shape of the decoded tree; it never
\* throws.
C7_NeverThrows == Extracted => skins.ok

\* Has the record a profile sub-structure, and which?
IsProfileKey(key) == key \in {K_profile, K_SkullOwner, K_Owner}
HasProfile(record) == \E i \in 1..Len(record.v) : IsProfileKey(record.v[i].key)
ProfileNode(record) ==
    record.v[FirstOf({i \in 1..Len(record.v) : IsProfileKey(record.v[i].key)})].val

\* A profile compound that carries no name, no UUID and no properties.
AllAbsent(profileNode) ==
    /\ profileNode.t = TAG_COMPOUND
    /\ \A i \in 1..Len(profileNode.v) :
          profileNode.v[i].key \notin {K_Name, K_name, K_Id, K_id, K_UUID, K_uuid,
                                       K_Properties, K_properties}

\* The records that have a profile with something in it.
Identified(d) ==
    {i \in 1..Len(StreamRecords(d)) :
        /\ HasProfile(StreamRecords(d)[i])
        /\ ~AllAbsent(ProfileNode(StreamRecords(d)[i]))}

\* C10: a record whose profile has name, UUID and texture value all absent
\* gives no profile, and every profile of the result has at least one of the
\* three.
C10_AbsentProfilesOmitted ==
    (Extracted /\ skins.ok) =>
        /\ \A n \in 1..Len(skins.v) :
              \/ Present(skins.v[n].name)
              \/ Present(skins.v[n].uuid)
              \/ Present(skins.v[n].textureValue)
        /\ ~doc.misfit => Len(skins.v) <= Cardinality(Identified(doc))

\* A record with an empty profile next to an identified one: one profile.
C10_Witness ==
    /\ Extracted /\ skins.ok /\ ~doc.misfit
    /\ Len(StreamRecords(doc)) = 2
    /\ \E i \in 1..2 : /\ HasProfile(StreamRecords(doc)[i])
                       /\ AllAbsent(ProfileNode(StreamRecords(doc)[i]))
    /\ Cardinality(Identified(doc)) = 1
    /\ Len(skins.v) = 1

(***************************************************************************)
(* Scalar identifiers: a profile whose identifier is one integer tag.      *)
(***************************************************************************)
ScalarInts == {0, 1, -1, 127, -128, 255, -256, 2147483647, -2147483647 - 1}
ScalarTypes == {TAG_BYTE, TAG_SHORT, TAG_INT, TAG_LONG}
ScalarKeys == {K_Id, K_id, K_UUID, K_uuid}

\* Does the value fit the tag type?  (A long is given as its two 32-bit
\* halves hi and lo, both written as signed 32-bit values.)
FitsScalar(t, hi, lo) ==
    CASE t = TAG_BYTE -> hi = 0 /\ lo >= -128 /\ lo <= 127
      [] t = TAG_SHORT -> hi = 0 /\ lo >= -32768 /\ lo <= 32767
      [] t = TAG_INT -> hi = 0
      [] t = TAG_LONG -> TRUE

ScalarNode(t, hi, lo) ==
    IF t = TAG_LONG THEN N(TAG_LONG, 0, I32Bytes(hi) \o I32Bytes(lo))
    ELSE N(t, 0, lo)

InitScalarId ==
    /\ \E t \in ScalarTypes, key \in ScalarKeys, hi \in ScalarInts, lo \in ScalarInts,
          named \in BOOLEAN :
          /\ FitsScalar(t, hi, lo)
          /\ doc = [name |-> <<>>, t |-> t, hi |-> hi, lo |-> lo, named |-> named,
                    root |-> (IF named THEN <<E(K_Name, N(TAG_STRING, 0, <<65>>))>>
                              ELSE <<>>)
                             \o <<E(key, ScalarNode(t, hi, lo))>>]
    /\ buffer = Encode(doc)
    /\ mode = "whole"
    /\ pc = "input"
    /\ parsed = NoParse
    /\ skins = NoSkins
    /\ skin = NoSkin

NextScalarId == ParseProfile

SpecScalarId == InitScalarId /\ [][NextScalarId]_vars

\* The 16 hexadecimal digits (as numbers) of the two's-complement form of
\* the scalar of the document.
ScalarDigits(d) ==
    IF d.t = TAG_LONG
    THEN [i \in 1..16 |-> IF i <= 8 THEN (d.hi \div Pow2(4 * (8 - i))) % 16
                          ELSE (d.lo \div Pow2(4 * (16 - i))) % 16]
    ELSE [i \in 1..16 |-> IF i <= 8 THEN (IF d.lo < 0 THEN 15 ELSE 0)
                          ELSE (d.lo \div Pow2(4 * (16 - i))) % 16]

RECURSIVE DropLeadingZeros(_)
DropLeadingZeros(ds) ==
    IF Len(ds) > 1 /\ ds[1] = 0 THEN DropLeadingZeros(Tail(ds)) ELSE ds

DigitChar(n) == <<48, 49, 50, 51, 52, 53, 54, 55, 56, 57, 97, 98, 99, 100, 101, 102>>[n + 1]

\* The scalar in base 16: a minus sign for a negative value, then the
\* digits of its magnitude without leading zeros.
ExpectedScalarHex(d) ==
    LET digits == ScalarDigits(d)
        negative == digits[1] >= 8
        \* 16^16 - value: every digit inverted, plus one carried from the right
        negated == [i \in 1..16 |->
                      (15 - digits[i]
                       + (IF \A j \in (i + 1)..16 : digits[j] = 0 THEN 1 ELSE 0)) % 16]
        body == DropLeadingZeros(IF negative THEN negated ELSE digits)
    IN  (IF negative THEN <<45>> ELSE <<>>)
        \o [i \in 1..Len(body) |-> DigitChar(body[i])]

ScalarIsZero(d) == d.hi = 0 /\ d.lo = 0

\* C11: for every profile whose identifier is a single integer or 64-bit
\* scalar (0 and negative values included), parseProfile does not fail and
\* yields a profile whose UUID is the hexadecimal string of that scalar.
C11_ScalarIdHex ==
    pc = "profiled" =>
        /\ skin.ok /\ skin.v.k = "skin"
        /\ skin.v.uuid.k = "string"
        /\ skin.v.uuid.v = ExpectedScalarHex(doc)

(***************************************************************************)
(* Documents with nothing to extract: no regions key at the root, or       *)
(* regions whose block entities carry no profile key.                      *)
(***************************************************************************)
K_Version == <<86, 101, 114, 115, 105, 111, 110>>
K_Items == <<73, 116, 101, 109, 115>>

\* Block entities without a profile key of their own, and one skull.
OtherEntities ==
    << Cmp(<<E(K_id, StrN(S_chest))>>),
       Cmp(<<>>),
       Cmp(<<E(K_id, StrN(S_skull))>>),
       Cmp(<<E(K_id, StrN(S_chest)), E(K_custom_name, StrN(S_X)),
             E(K_Items, N(TAG_LIST, TAG_END, <<>>))>>),
       Cmp(<<E(K__proto__, Cmp(<<E(K_profile, StrN(S_A))>>))>>),
       Skull(K_profile, StrN(S_A)) >>

\* Root compounds without a regions key.
OtherRoots ==
    << <<>>,
       <<E(K_Version, N(TAG_INT, 0, 6))>>,
       <<E(K_BlockEntities, N(TAG_LIST, TAG_COMPOUND, <<Skull(K_profile, StrN(S_A))>>))>>,
       <<E(K__proto__, N(TAG_INT, 0, 6))>>,
       <<E(K__proto__,
           Cmp(<<E(K_Regions,
                   Cmp(<<E(<<114>>,
                           Cmp(<<E(K_BlockEntities,
                                   N(TAG_LIST, TAG_COMPOUND,
                                     <<Skull(K_profile, StrN(S_A))>>))>>))>>))>>))>> >>

\* The root written without its regions entry.
PutRoot(root) ==
    /\ pc = "build" /\ ~doc.misfit /\ Len(Regions(doc).v) = 0
    /\ Rebuilt([doc EXCEPT !.root = root, !.misfit = TRUE])

NextEmpty ==
    \/ \E name \in RegionNames : AddRegion(name)
    \/ \E i \in 1..Len(OtherEntities) : AddEntity(OtherEntities[i])
    \/ \E i \in 1..Len(OtherRoots) : PutRoot(OtherRoots[i])
    \/ Parse
    \/ Extract

SpecEmpty == InitExtract /\ [][NextEmpty]_vars

\* The encoded root compound has no regions key under either spelling.
NoRegionsKey(d) ==
    \A i \in 1..Len(d.root) : d.root[i].key \notin {K_Regions, K_regions}

\* The regions of the document hold only block entities without a
\* skull-profile key.
NoProfileKey(d) ==
    /\ ~NoRegionsKey(d)
    /\ \A i \in 1..Len(StreamRecords(d)) : ~HasProfile(StreamRecords(d)[i])

\* C12: for a document whose root has no regions key under either spelling,
\* or whose regions contain only block entities without any skull-profile
\* key, the extraction returns an empty sequence: not null, not an error.
C12_EmptyResult ==
    (Extracted /\ (NoRegionsKey(doc) \/ NoProfileKey(doc))) =>
        (skins.ok /\ Len(skins.v) = 0)

(***************************************************************************)
(* Reading one string: a length prefix and its payload at some offset of   *)
(* a buffer that holds all of it.                                          *)
(***************************************************************************)
StringLengths ==
    {0, 1, 2, 3, LongStringLen - 1, LongStringLen, LongStringLen + 1, 65535}
StringFills == {0, 48, 97, 127}
StringStarts == {0, 1, 3}
StringExtras == {0, 1}

\* [start] bytes before the string, the unsigned big-endian length, the
\* payload of [len] equal ASCII bytes, [extra] bytes after it.
StringBuffer(d) ==
    [i \in 1..d.start |-> 9] \o <<d.len \div 256, d.len % 256>>
    \o [i \in 1..d.len |-> d.fill] \o [i \in 1..d.extra |-> 0]

InitString ==
    /\ \E len \in StringLengths, fill \in StringFills, start \in StringStarts,
          extra \in StringExtras :
          doc = [name |-> <<>>, root |-> <<>>, len |-> len, fill |-> fill,
                 start |-> start, extra |-> extra]
    /\ buffer = StringBuffer(doc)
    /\ mode = "whole"
    /\ pc = "input"
    /\ parsed = NoParse
    /\ skins = NoSkins
    /\ skin = NoSkin

\* readString with the cursor at doc.start; parsed keeps what it returned
\* and the cursor after it.
ReadString ==
    /\ pc = "input"
    /\ parsed' = [ok |-> readString(buffer, doc.start).ok, name |-> <<>>,
                  value |-> readString(buffer, doc.start).v,
                  off |-> readString(buffer, doc.start).off]
    /\ pc' = "read"
    /\ UNCHANGED <<doc, buffer, mode, skins, skin>>

NextString == ReadString

SpecString == InitString /\ [][NextString]_vars

\* C13: readString takes the two-byte prefix as an unsigned length L in
\* 0..65535 and consumes exactly L payload bytes: the cursor advances by
\* 2 + L for every L, and only L = 0 gives the empty string.
C13_UnsignedLength ==
    pc = "read" =>
        /\ parsed.ok
        /\ parsed.off = doc.start + 2 + doc.len
        /\ parsed.value.k = "string"
        /\ Len(parsed.value.v) = doc.len
        /\ \A i \in 1..doc.len : parsed.value.v[i] = doc.fill

(***************************************************************************)
(* Aliased keys: one region with one skull, in which one field is written  *)
(* under two of its alias keys at once.                                    *)
(***************************************************************************)
S_U == <<85>>
S_S == <<83>>
S_V == <<86>>
S_Y == <<89>>
UUID2 == <<0, 0, 0, 2>>

\* The fields and, for each, its alias keys in priority order.
Fields == {"regions", "entities", "profile", "customName", "name", "id",
           "properties", "value", "signature"}

AliasKeys(f) ==
    CASE f = "regions" -> <<K_Regions, K_regions>>
      [] f = "entities" -> <<K_BlockEntities, K_TileEntities>>
      [] f = "profile" -> <<K_profile, K_SkullOwner, K_Owner>>
      [] f = "customName" -> <<K_custom_name, K_CustomName>>
      [] f = "name" -> <<K_Name, K_name>>
      [] f = "id" -> <<K_Id, K_id, K_UUID, K_uuid>>
      [] f = "properties" -> <<K_Properties, K_properties>>
      [] f = "value" -> <<K_Value, K_value>>
      [] f = "signature" -> <<K_Signature, K_signature>>

\* The two sample skulls (m is 1 or 2) and what they are made of.
SampleName(m) == IF m = 1 THEN S_A ELSE S_B
SampleCustomName(m) == IF m = 1 THEN S_X ELSE S_Y
SampleValue(m) == IF m = 1 THEN S_T ELSE S_U
SampleSignature(m) == IF m = 1 THEN S_S ELSE S_V
SampleId(m) == IF m = 1 THEN UUID1 ELSE UUID2

SampleProperties(m) ==
    N(TAG_LIST, TAG_COMPOUND,
      <<Cmp(<<E(K_name, StrN(K_textures)), E(K_Value, StrN(SampleValue(m))),
              E(K_Signature, StrN(SampleSignature(m)))>>)>>)

SampleProfile(m) ==
    Cmp(<<E(K_Name, StrN(SampleName(m))), E(K_Id, N(TAG_INT_ARRAY, 0, SampleId(m))),
          E(K_Properties, SampleProperties(m))>>)

SampleEntities(m) ==
    N(TAG_LIST, TAG_COMPOUND,
      <<Cmp(<<E(K_id, StrN(S_skull)), E(K_custom_name, StrN(SampleCustomName(m))),
              E(K_profile, SampleProfile(m))>>)>>)

SampleRegions(m) == Cmp(<<E(<<114>>, Cmp(<<E(K_BlockEntities, SampleEntities(m))>>))>>)

\* The value of field f in sample m.
Sample(f, m) ==
    CASE f = "regions" -> SampleRegions(m)
      [] f = "entities" -> SampleEntities(m)
      [] f = "profile" -> SampleProfile(m)
      [] f = "customName" -> StrN(SampleCustomName(m))
      [] f = "name" -> StrN(SampleName(m))
      [] f = "id" -> N(TAG_INT_ARRAY, 0, SampleId(m))
      [] f = "properties" -> SampleProperties(m)
      [] f = "value" -> StrN(SampleValue(m))
      [] f = "signature" -> StrN(SampleSignature(m))

\* What an alias key can hold: the value of sample 1 or 2, an empty string,
\* the integer 0, an empty list, an empty compound; "absent" stands for a
\* key that is not written.
Candidate(f, c) ==
    CASE c = "sample1" -> Sample(f, 1)
      [] c = "sample2" -> Sample(f, 2)
      [] c = "emptyString" -> StrN(<<>>)
      [] c = "zero" -> N(TAG_INT, 0, 0)
      [] c = "emptyList" -> N(TAG_LIST, TAG_END, <<>>)
      [] c = "emptyCompound" -> Cmp(<<>>)

HighCandidates == {"absent", "sample1", "emptyString", "zero", "emptyList", "emptyCompound"}
LowCandidates == {"absent", "sample2", "emptyString"}

\* The entries of the aliased field of the choice ch = [field, a, b, high,
\* low, swap]: alias a (the higher priority) holds candidate `high`, alias
\* b candidate `low`; swap writes b first.
AliasEntries(ch) ==
    LET hi == IF ch.high = "absent" THEN <<>>
              ELSE <<E(AliasKeys(ch.field)[ch.a], Candidate(ch.field, ch.high))>>
        lo == IF ch.low = "absent" THEN <<>>
              ELSE <<E(AliasKeys(ch.field)[ch.b], Candidate(ch.field, ch.low))>>
    IN  IF ch.swap THEN lo \o hi ELSE hi \o lo

\* The entries of field f: the aliased ones if f is the field of the
\* choice, sample 1 under the first alias otherwise.
FieldEntries(ch, f, value) ==
    IF ch.field = f THEN AliasEntries(ch) ELSE <<E(AliasKeys(f)[1], value)>>

AliasProperties(ch) ==
    N(TAG_LIST, TAG_COMPOUND,
      <<Cmp(<<E(K_name, StrN(K_textures))>>
            \o FieldEntries(ch, "value", Sample("value", 1))
            \o FieldEntries(ch, "signature", Sample("signature", 1)))>>)

AliasProfile(ch) ==
    Cmp(FieldEntries(ch, "name", Sample("name", 1))
        \o FieldEntries(ch, "id", Sample("id", 1))
        \o FieldEntries(ch, "properties", AliasProperties(ch)))

AliasEntities(ch) ==
    N(TAG_LIST, TAG_COMPOUND,
      <<Cmp(<<E(K_id, StrN(S_skull))>>
            \o FieldEntries(ch, "customName", Sample("customName", 1))
            \o FieldEntries(ch, "profile", AliasProfile(ch)))>>)

AliasRegions(ch) ==
    Cmp(<<E(<<114>>, Cmp(FieldEntries(ch, "entities", AliasEntities(ch))))>>)

AliasRoot(ch) == FieldEntries(ch, "regions", AliasRegions(ch))

InitAlias ==
    /\ \E f \in Fields, a \in 1..4, b \in 1..4,
          high \in HighCandidates, low \in LowCandidates, swap \in BOOLEAN :
          /\ a < b /\ b <= Len(AliasKeys(f))
          /\ doc = [name |-> <<>>,
                    choice |-> [field |-> f, a |-> a, b |-> b, high |-> high,
                                low |-> low, swap |-> swap],
                    root |-> AliasRoot([field |-> f, a |-> a, b |-> b, high |-> high,
                                        low |-> low, swap |-> swap])]
    /\ buffer = Encode(doc)
    /\ mode = "whole"
    /\ pc = "build"
    /\ parsed = NoParse
    /\ skins = NoSkins
    /\ skin = NoSkin

NextAlias == Parse \/ Extract

SpecAlias == InitAlias /\ [][NextAlias]_vars

\* The result of the extraction for the document with the given root.
ExtractOf(root) ==
    extractSkinsFromNBT(parse(Encode([name |-> <<>>, root |-> root])))

SameResult(r1, r2) ==
    /\ r1.ok = r2.ok
    /\ Len(r1.v) = Len(r2.v)
    /\ \A i \in 1..Len(r1.v) : SkinEq(r1.v[i], r2.v[i])

BothWritten(d) == d.choice.high # "absent" /\ d.choice.low # "absent"

\* The document with only the higher, or only the lower, alias written.
WithoutLow(d) == AliasRoot([d.choice EXCEPT !.low = "absent"])
WithoutHigh(d) == AliasRoot([d.choice EXCEPT !.high = "absent"])

\* The candidates that JavaScript takes for false.
FalsyCandidates == {"emptyString", "zero"}

\* C14: for each aliased field the extractor uses the value
\* under the first alias key present, whatever that value is (an empty
\* string, 0 or an empty list included): with a higher-priority key present
\* the lower one is not consulted, so the result is the one of the document
\* without the lower key.
C14_FirstPresentAlias ==
    (Extracted /\ BothWritten(doc)) => SameResult(skins, ExtractOf(WithoutLow(doc)))

\* What the alias lookup does (C14 apart from the cases in which it fails):
\* for each aliased field the extractor uses the value under the first
\* alias key, in priority order, whose value is not falsy: with a
\* higher-priority value that is an empty string or 0 the result is the one
\* of the document without the higher key, with any other higher-priority
\* value (an empty list or compound included) the one of the document
\* without the lower key.
C14_FirstTruthyAlias ==
    (Extracted /\ BothWritten(doc)) =>
        IF doc.choice.high \in FalsyCandidates
        THEN SameResult(skins, ExtractOf(WithoutHigh(doc)))
        ELSE SameResult(skins, ExtractOf(WithoutLow(doc)))

\* Name "" and name "B" are both written, and the profile is named B.
C14_Witness ==
    /\ Extracted /\ BothWritten(doc)
    /\ doc.choice.field = "name" /\ doc.choice.high = "emptyString"
    /\ doc.choice.low = "sample2"
    /\ skins.ok /\ Len(skins.v) = 1
    /\ skins.v[1].name.k = "string" /\ skins.v[1].name.v = S_B

====
